---- MODULE Spec2Model ----
(***************************************************************************)
(* Power+ backend (src/api_server.py): the refresh-and-cache pipeline      *)
(* (get_data, load_cached_data, save_to_cache, process_data) and the       *)
(* Flask routes over it, as a state machine of concurrent request          *)
(* handlers sharing the cache file data_cache.json.                        *)
(*                                                                         *)
(* Measurements are integers in tenths (72.0 mph is 720, Power+ 110.0 is   *)
(* 1100); time is counted in hours, so CACHE_DURATION = timedelta(hours=6) *)
(* is 6.                                                                   *)
(***************************************************************************)
EXTENDS Integers, Sequences, FiniteSets, TLC

\* ------------------------------------------------------------------------
\* Program constants (src/api_server.py:20-26)
\* ------------------------------------------------------------------------
CACHE_DURATION == 6

LEAGUE_AVG_BAT_SPEED == 720

LEAGUE_AVG_SWING_LENGTH == 73

\* ------------------------------------------------------------------------
\* Bounds of the model
\* ------------------------------------------------------------------------
\* number of request-handler threads of the server
NumThreads == 2

\* the clock advances ClockStep hours at a time, MaxTicks times
ClockStep == 3

MaxTicks == 2

\* Source Fetcher invocations over a run
MaxFetches == 2

\* columns of the tables given to process_data in a direct call
MaxColumns == 3

\* the Power+ values (tenths) given to get_grade in a direct call
MinPower == 880

MaxPower == 1120

\* records of the datasets given to the routes' code in a direct call
MaxRecords == 3

\* ------------------------------------------------------------------------
\* Values: a cell of a table / a field of a record is a number, a string
\* or null (None / NaN / pd.NA).
\* ------------------------------------------------------------------------
Num(n) == [num |-> n]

Str(s) == [str |-> s]

Null == [null |-> TRUE]

IsNum(v) == DOMAIN v = {"num"}

IsStr(v) == DOMAIN v = {"str"}

IsNull(v) == DOMAIN v = {"null"}

\* ------------------------------------------------------------------------
\* Strings: str.lower() and the "in" substring test
\* ------------------------------------------------------------------------
LowerAlphabet == "abcdefghijklmnopqrstuvwxyz"

UpperAlphabet == "ABCDEFGHIJKLMNOPQRSTUVWXYZ"

\* the character of alphabet `to` at the place c has in alphabet `from`
MapChar(c, from, to) ==
    LET at == {i \in 1..Len(from) : SubSeq(from, i, i) = c}
    IN  IF at = {} THEN c ELSE LET i == CHOOSE j \in at : TRUE IN SubSeq(to, i, i)

LowerChar(c) == MapChar(c, UpperAlphabet, LowerAlphabet)

UpperChar(c) == MapChar(c, LowerAlphabet, UpperAlphabet)

RECURSIVE Lower(_)
Lower(s) ==
    IF Len(s) = 0 THEN s
    ELSE LowerChar(SubSeq(s, 1, 1)) \o Lower(SubSeq(s, 2, Len(s)))

RECURSIVE Upper(_)
Upper(s) ==
    IF Len(s) = 0 THEN s
    ELSE UpperChar(SubSeq(s, 1, 1)) \o Upper(SubSeq(s, 2, Len(s)))

Contains(s, sub) ==
    \E i \in 1..(Len(s) - Len(sub) + 1) : SubSeq(s, i, i + Len(sub) - 1) = sub

\* ------------------------------------------------------------------------
\* Metric Calculator
\* ------------------------------------------------------------------------
\* round(n / d, 0) for d > 0: Python rounds halves to the even neighbour
RoundDiv(n, d) ==
    LET q == n \div d
        r == n % d
    IN  IF 2 * r < d THEN q
        ELSE IF 2 * r > d THEN q + 1
        ELSE IF q % 2 = 0 THEN q ELSE q + 1

\* calculate_power_plus: tenths in, tenths out; Null is None
calculate_power_plus(bat_speed, swing_length) ==
    IF IsNull(swing_length) \/ IsNull(bat_speed) THEN Null
    ELSE IF swing_length.num = 0 THEN Null
    ELSE LET n == bat_speed.num * LEAGUE_AVG_SWING_LENGTH * 1000
             d == swing_length.num * LEAGUE_AVG_BAT_SPEED
         IN  IF d > 0 THEN Num(RoundDiv(n, d)) ELSE Num(RoundDiv(-n, -d))

\* get_grade with the bug of thresholds that exclude their own value
get_grade_exclusive(power_plus) ==
    IF IsNull(power_plus) THEN "N/A"
    ELSE IF power_plus.num > 1100 THEN "Elite"
    ELSE IF power_plus.num > 1050 THEN "Above Average"
    ELSE IF power_plus.num > 950 THEN "Average"
    ELSE IF power_plus.num > 900 THEN "Below Average"
    ELSE "Poor"

get_grade(power_plus) ==
    IF IsNull(power_plus) THEN "N/A"
    ELSE IF power_plus.num >= 1100 THEN "Elite"
    ELSE IF power_plus.num >= 1050 THEN "Above Average"
    ELSE IF power_plus.num >= 950 THEN "Average"
    ELSE IF power_plus.num >= 900 THEN "Below Average"
    ELSE "Poor"

\* ------------------------------------------------------------------------
\* Raw tables and process_data
\* A DataFrame is [columns: sequence of names, rows: sequence of rows],
\* a row a sequence of cells in column order.
\* ------------------------------------------------------------------------
EmptyFrame == [columns |-> <<>>, rows |-> <<>>]

\* df.empty: no rows or no columns
IsEmptyFrame(df) == df.columns = <<>> \/ df.rows = <<>>

\* MatchingColumns with the bug of listing the matches from the last column
\* to the first
MatchingColumnsLastFirst(columns, sub) ==
    LET Hit(i) == Contains(Lower(columns[i]), sub)
        RECURSIVE From(_)
        From(i) == IF i < 1 THEN <<>>
                   ELSE (IF Hit(i) THEN <<i>> ELSE <<>>) \o From(i - 1)
    IN  From(Len(columns))

\* [c for c in df.columns if sub in c.lower()]
MatchingColumns(columns, sub) ==
    LET Hit(i) == Contains(Lower(columns[i]), sub)
        RECURSIVE From(_)
        From(i) == IF i > Len(columns) THEN <<>>
                   ELSE (IF Hit(i) THEN <<i>> ELSE <<>>) \o From(i + 1)
    IN  From(1)

\* pd.to_numeric(errors='coerce'): a non-numeric cell becomes NaN
ToNumeric(v) == IF IsNum(v) THEN v ELSE Null

\* position of a column name, the last one when the name repeats or is
\* assigned again; 0 when there is none
ColumnIndex(columns, name) ==
    LET hits == {i \in 1..Len(columns) : columns[i] = name}
    IN  IF hits = {} THEN 0 ELSE CHOOSE i \in hits : \A j \in hits : j <= i

\* df[name] = values: replaces the column in place or appends it
SetColumn(df, name, values) ==
    LET k == ColumnIndex(df.columns, name)
    IN  IF k = 0
        THEN [columns |-> Append(df.columns, name),
              rows |-> [r \in 1..Len(df.rows) |-> Append(df.rows[r], values[r])]]
        ELSE [columns |-> df.columns,
              rows |-> [r \in 1..Len(df.rows) |->
                           [df.rows[r] EXCEPT ![k] = values[r]]]]

process_data(df) ==
    LET speed_cols == MatchingColumns(df.columns, "bat_speed")
        length_cols == MatchingColumns(df.columns, "swing_length")
    IN  IF speed_cols = <<>> \/ length_cols = <<>> THEN EmptyFrame
        ELSE
        LET speed_col == speed_cols[1]
            length_col == length_cols[1]
            Kept(row) == ~IsNull(row[speed_col]) /\ ~IsNull(row[length_col])
            dropped == [df EXCEPT !.rows = SelectSeq(df.rows, Kept)]
            n == Len(dropped.rows)
            speeds == [r \in 1..n |-> ToNumeric(dropped.rows[r][speed_col])]
            lengths == [r \in 1..n |-> ToNumeric(dropped.rows[r][length_col])]
            df1 == SetColumn(dropped, "bat_speed", speeds)
            df2 == SetColumn(df1, "swing_length", lengths)
            bs == ColumnIndex(df2.columns, "bat_speed")
            sl == ColumnIndex(df2.columns, "swing_length")
            power == [r \in 1..n |->
                         calculate_power_plus(df2.rows[r][bs], df2.rows[r][sl])]
        IN  SetColumn(df2, "power_plus", power)

\* df.to_dict('records'): one record (a function from column name to
\* cell) per row; NaN / pd.NA cells were replaced by None before
ToRecords(df) ==
    [r \in 1..Len(df.rows) |->
        [c \in {df.columns[i] : i \in 1..Len(df.columns)} |->
            df.rows[r][ColumnIndex(df.columns, c)]]]

\* ------------------------------------------------------------------------
\* Python values get_data handles: a list of records, the error dict, None,
\* and a str (met only as the "data" of a cache file written by hand)
\* ------------------------------------------------------------------------
List(items) == [list |-> items]

\* {"error": "No data available"}
NoDataAvailable == [error |-> "No data available"]

None == [none |-> TRUE]

Text(s) == [text |-> s]

IsList(v) == DOMAIN v = {"list"}

IsDict(v) == DOMAIN v = {"error"}

IsNone(v) == DOMAIN v = {"none"}

IsText(v) == DOMAIN v = {"text"}

\* bool(v): None, the empty list and the empty str are falsy
Truthy(v) ==
    IF IsNone(v) THEN FALSE
    ELSE IF IsList(v) THEN v.list # <<>>
    ELSE IF IsText(v) THEN Len(v.text) > 0
    ELSE TRUE

\* ------------------------------------------------------------------------
\* The cache file. Its text is a sequence of chunks, the units in which a
\* writer's buffer reaches the file:
\*   head   {"timestamp": "<iso>", "data": [      rec    one record
\*   tail   ]}                                   hole   NUL bytes left by a
\*                                                      write past the end
\* and, in files this program did not write:
\*   garbage     text that is not JSON
\*   head_nots   {"data": [                 (no "timestamp" key)
\*   head_badts  {"timestamp": "n/a", "data": [   (not an ISO date)
\*   nodata      {"timestamp": "<iso>"}     (no "data" key, a whole file)
\*   baddata     {"timestamp": "<iso>", "data": "n/a"}   (a whole file)
\* ------------------------------------------------------------------------
HeadChunk(ts) == [tok |-> "head", ts |-> ts]

Digits == "0123456789"

\* int(text) for the decimal digits of a non-negative number
RECURSIVE ParseDigits(_)
ParseDigits(text) ==
    IF Len(text) = 0 THEN 0
    ELSE LET last == SubSeq(text, Len(text), Len(text))
             d == CHOOSE i \in 1..10 : SubSeq(Digits, i, i) = last
         IN  10 * ParseDigits(SubSeq(text, 1, Len(text) - 1)) + (d - 1)

\* json.dumps of one cell: a number by its digits, a str between quotes,
\* None as null
JsonLiteral(v) ==
    IF IsNull(v) THEN "null"
    ELSE IF IsStr(v) THEN "\"" \o v.str \o "\""
    ELSE ToString(v.num)

\* JsonValue with the bug of a reader that keeps every literal but null as
\* the str it is written with
JsonValueAllText(text) ==
    IF text = "null" THEN Null ELSE Str(text)

\* json.loads of one literal
JsonValue(text) ==
    IF text = "null" THEN Null
    ELSE IF SubSeq(text, 1, 1) = "\"" THEN Str(SubSeq(text, 2, Len(text) - 1))
    ELSE IF SubSeq(text, 1, 1) = "-" THEN Num(0 - ParseDigits(SubSeq(text, 2, Len(text))))
    ELSE Num(ParseDigits(text))

\* a record as the JSON object text json.dump writes for it, key by key
JsonDumps(r) == [k \in DOMAIN r |-> JsonLiteral(r[k])]

\* the record json.load builds from an object text
JsonLoads(object) == [k \in DOMAIN object |-> JsonValue(object[k])]

RecChunk(r) == [tok |-> "rec", text |-> JsonDumps(r)]

TailChunk == [tok |-> "tail"]

HoleChunk == [tok |-> "hole"]

NoFile == [exists |-> FALSE, content |-> <<>>]

FileOf(content) == [exists |-> TRUE, content |-> content]

\* json.dump({'timestamp': ts, 'data': data}, f), as the chunks written
JsonDump(ts, data) ==
    <<HeadChunk(ts)>> \o [i \in 1..Len(data) |-> RecChunk(data[i])] \o <<TailChunk>>

\* json.load(f): the parsed object, or a failure (json.JSONDecodeError)
JsonLoad(content) ==
    LET n == Len(content)
        framed == /\ n >= 2
                  /\ content[1].tok \in {"head", "head_nots", "head_badts"}
                  /\ content[n].tok = "tail"
                  /\ \A i \in 2..(n - 1) : content[i].tok = "rec"
        blank == [ok |-> FALSE, hasTs |-> FALSE, tsValid |-> FALSE, ts |-> 0,
                  hasData |-> FALSE, data |-> None]
    IN  IF framed
        THEN [ok |-> TRUE,
              hasTs |-> content[1].tok # "head_nots",
              tsValid |-> content[1].tok = "head",
              ts |-> IF content[1].tok = "head" THEN content[1].ts ELSE 0,
              hasData |-> TRUE,
              data |-> List([i \in 1..(n - 2) |-> JsonLoads(content[i + 1].text)])]
        ELSE IF n = 1 /\ content[1].tok = "nodata"
        THEN [blank EXCEPT !.ok = TRUE, !.hasTs = TRUE, !.tsValid = TRUE,
                           !.ts = content[1].ts]
        ELSE IF n = 1 /\ content[1].tok = "baddata"
        THEN [blank EXCEPT !.ok = TRUE, !.hasTs = TRUE, !.tsValid = TRUE,
                           !.ts = content[1].ts, !.hasData = TRUE, !.data = Text("n/a")]
        ELSE blank

\* load_cached_data() at clock reading t: the data of a fresh entry, else None
load_cached_data(f, t) ==
    IF ~f.exists THEN None
    ELSE LET cache == JsonLoad(f.content)
         IN  IF ~cache.ok THEN None                            \* except: json error
             ELSE IF ~cache.hasTs \/ ~cache.tsValid THEN None  \* KeyError, ValueError
             ELSE IF t - cache.ts < CACHE_DURATION
                  THEN (IF cache.hasData THEN cache.data ELSE None)  \* KeyError
                  ELSE None

\* f.write(chunk) at position pos of a file of the given content
WriteAt(content, pos, chunk) ==
    [i \in 1..(IF pos > Len(content) THEN pos ELSE Len(content)) |->
        IF i = pos THEN chunk
        ELSE IF i <= Len(content) THEN content[i] ELSE HoleChunk]

\* ------------------------------------------------------------------------
\* The Source Fetcher's answers (fetch_baseball_savant_data): None on a
\* transport error, a non-200 status or an unparsable payload, else the
\* DataFrame read from the CSV.
\* ------------------------------------------------------------------------
Columns == <<"player_name", "team", "swings", "avg_bat_speed", "swing_length">>

\* a snapshot of two players; the second has a zero swing length
TableA ==
    [columns |-> Columns,
     rows |-> << <<Str("Judge"), Str("NYY"), Num(400), Num(780), Num(70)>>,
                 <<Str("Arraez"), Str("SD"), Num(250), Num(630), Num(0)>> >>]

\* a later snapshot of one player
TableB ==
    [columns |-> Columns,
     rows |-> << <<Str("Soto"), Str("NYM"), Num(310), Num(750), Num(76)>> >>]

\* the upstream schema drifted: no swing-length column
TableNoLength ==
    [columns |-> <<"player_name", "Bat_Speed_MPH">>,
     rows |-> << <<Str("Judge"), Num(780)>> >>]

\* every row lacks a bat speed, so dropna leaves no row
TableAllNull ==
    [columns |-> Columns,
     rows |-> << <<Str("Judge"), Str("NYY"), Num(400), Null, Num(70)>> >>]

\* a CSV of a header line only: df.empty
TableNoRows == [columns |-> Columns, rows |-> <<>>]

\* the tables a 200 answer can carry
Tables == {TableA, TableB, TableNoLength, TableAllNull, TableNoRows}

\* what fetch_baseball_savant_data() can return
FetchAnswers == {None} \cup Tables

\* lines 166-168 of get_data over each of them: process_data, then
\* df.replace(nulls by None) and df.to_dict('records')
Processed == [df \in Tables |-> ToRecords(process_data(df))]

\* ------------------------------------------------------------------------
\* The routes: each maps what get_data returned to the HTTP response.
\* An exception no handler catches is Flask's plain 500 page.
\* ------------------------------------------------------------------------
Json(status, body) == [status |-> status, kind |-> "json", body |-> body]

Unhandled == [status |-> 500, kind |-> "exception", body |-> None]

\* what is kept of a response once sent: the route, the status, the kind
Sent(r, response) ==
    [route |-> r.route, status |-> response.status, kind |-> response.kind]

NoResponse == [route |-> "", status |-> 0, kind |-> "none"]

\* p.get(key, default)
Get(p, key, default) == IF key \in DOMAIN p THEN p[key] ELSE default

\* get_all_players: jsonify(data)
get_all_players(data) == Json(200, data)

\* [p for p in data if p.get(key, 0) >= least]; iterating the error dict
\* yields its key and iterating a str its characters, each a str without
\* .get (AttributeError); None >= n and str >= n raise TypeError
FilterAtLeast(data, key, least) ==
    IF ~IsList(data) THEN Unhandled
    ELSE LET Field(p) == Get(p, key, Num(0))
         IN  IF \E i \in 1..Len(data.list) : ~IsNum(Field(data.list[i]))
             THEN Unhandled
             ELSE LET Keep(p) == Field(p).num >= least
                  IN  Json(200, List(SelectSeq(data.list, Keep)))

get_qualified_players(data) == FilterAtLeast(data, "swings", 300)

get_elite_players(data) == FilterAtLeast(data, "power_plus", 1100)

\* get_player with the bug of comparing the lowercased query with the name
\* as the record spells it
get_player_case_sensitive(data, player_name) ==
    IF ~IsList(data) THEN Unhandled
    ELSE LET Name(p) == Get(p, "player_name", Str(""))
             Stops(i) == \/ ~IsStr(Name(data.list[i]))
                         \/ Contains(Name(data.list[i]).str, Lower(player_name))
             stops == {i \in 1..Len(data.list) : Stops(i)}
         IN  IF stops = {} THEN Json(404, [error |-> "Player not found"])
             ELSE LET i == CHOOSE j \in stops : \A k \in stops : j <= k
                  IN  IF ~IsStr(Name(data.list[i])) THEN Unhandled
                      ELSE Json(200, data.list[i])

\* next((p for p in data if player_name.lower() in p.get('player_name', '').lower()), None)
get_player(data, player_name) ==
    IF ~IsList(data) THEN Unhandled
    ELSE LET Name(p) == Get(p, "player_name", Str(""))
             Stops(i) == \/ ~IsStr(Name(data.list[i]))
                         \/ Contains(Lower(Name(data.list[i]).str), Lower(player_name))
             stops == {i \in 1..Len(data.list) : Stops(i)}
         IN  IF stops = {} THEN Json(404, [error |-> "Player not found"])
             ELSE LET i == CHOOSE j \in stops : \A k \in stops : j <= k
                  IN  IF ~IsStr(Name(data.list[i])) THEN Unhandled
                      ELSE Json(200, data.list[i])

\* [p for p in data if p.get('team', '').upper() == team_abbrev.upper()]
get_team_players(data, team_abbrev) ==
    IF ~IsList(data) THEN Unhandled
    ELSE LET Team(p) == Get(p, "team", Str(""))
         IN  IF \E i \in 1..Len(data.list) : ~IsStr(Team(data.list[i]))
             THEN Unhandled
             ELSE LET Keep(p) == Upper(Team(p).str) = Upper(team_abbrev)
                  IN  Json(200, List(SelectSeq(data.list, Keep)))

\* sum of the numbers among the cells xs
RECURSIVE SumNums(_)
SumNums(xs) ==
    IF xs = <<>> THEN 0
    ELSE (IF IsNum(Head(xs)) THEN Head(xs).num ELSE 0) + SumNums(Tail(xs))

\* round(df[key].mean(), digits): the mean skips nulls and is NaN over none;
\* cells are tenths, the result is in units of 10^-digits
Mean(items, key, digits) ==
    LET cells == [i \in 1..Len(items) |-> Get(items[i], key, Null)]
        nums == SelectSeq(cells, IsNum)
        scale == IF digits = 2 THEN 10 ELSE 1
    IN  IF nums = <<>> THEN Null
        ELSE Num(RoundDiv(SumNums(nums) * scale, Len(nums)))

\* len(df[(df[key] >= lo) & (df[key] < hi)]) with hi = 0 for no upper limit
CountIn(items, key, lo, hi) ==
    LET In(p) == LET v == Get(p, key, Null)
                 IN  IsNum(v) /\ v.num >= lo /\ (hi = 0 \/ v.num < hi)
    IN  Len(SelectSeq(items, In))

\* get_summary with the bug of testing for the error dict only: an empty
\* list goes on to pd.DataFrame([]), where df['bat_speed'] raises KeyError
get_summary_error_dict_only(data) ==
    IF IsDict(data)
    THEN Json(500, [error |-> "No data available"])
    ELSE IF ~IsList(data) THEN Unhandled
    ELSE IF \A i \in 1..Len(data.list) : "swings" \notin DOMAIN data.list[i]
    THEN Unhandled
    ELSE Json(200, [total_players |-> Len(data.list),
                    avg_bat_speed |-> Mean(data.list, "bat_speed", 2),
                    avg_swing_length |-> Mean(data.list, "swing_length", 2),
                    avg_power_plus |-> Mean(data.list, "power_plus", 1),
                    elite_count |-> CountIn(data.list, "power_plus", 1100, 0),
                    above_avg_count |-> CountIn(data.list, "power_plus", 1050, 1100),
                    qualified_count |-> CountIn(data.list, "swings", 300, 0)])

\* get_summary: the explicit error for no data, else the aggregate;
\* pd.DataFrame(a str) raises ValueError, df['swings'] raises KeyError when
\* no record has the column
get_summary(data) ==
    IF ~Truthy(data) \/ IsDict(data)
    THEN Json(500, [error |-> "No data available"])
    ELSE IF IsText(data) THEN Unhandled
    ELSE IF \A i \in 1..Len(data.list) : "swings" \notin DOMAIN data.list[i]
    THEN Unhandled
    ELSE Json(200, [total_players |-> Len(data.list),
                    avg_bat_speed |-> Mean(data.list, "bat_speed", 2),
                    avg_swing_length |-> Mean(data.list, "swing_length", 2),
                    avg_power_plus |-> Mean(data.list, "power_plus", 1),
                    elite_count |-> CountIn(data.list, "power_plus", 1100, 0),
                    above_avg_count |-> CountIn(data.list, "power_plus", 1050, 1100),
                    qualified_count |-> CountIn(data.list, "swings", 300, 0)])

\* len(data): the records of a list, the keys of the error dict, the
\* characters of a str
PyLen(data) ==
    IF IsList(data) THEN Len(data.list)
    ELSE IF IsText(data) THEN Len(data.text)
    ELSE 1

\* refresh_data: always {"status": "success", ...}
refresh_data(data) ==
    Json(200, [status |-> "success", players_count |-> PyLen(data)])

\* the routes that call get_data() and the arguments tried for them
PlainRoutes ==
    { [route |-> "players", arg |-> ""],
      [route |-> "qualified", arg |-> ""],
      [route |-> "elite", arg |-> ""],
      [route |-> "player", arg |-> "JUD"],
      [route |-> "player", arg |-> "ohtani"],
      [route |-> "teams", arg |-> "nyy"],
      [route |-> "summary", arg |-> ""] }

\* the route that calls get_data(force_refresh=True)
ForcedRoutes == { [route |-> "refresh", arg |-> ""] }

Routes == PlainRoutes \cup ForcedRoutes

RouteResponse(r, data) ==
    CASE r.route = "players" -> get_all_players(data)
      [] r.route = "qualified" -> get_qualified_players(data)
      [] r.route = "elite" -> get_elite_players(data)
      [] r.route = "player" -> get_player(data, r.arg)
      [] r.route = "teams" -> get_team_players(data, r.arg)
      [] r.route = "summary" -> get_summary(data)
      [] r.route = "refresh" -> refresh_data(data)

\* ------------------------------------------------------------------------
\* State
\* ------------------------------------------------------------------------
Threads == 1..NumThreads

VARIABLES
    now,        \* datetime.now(), in hours
    file,       \* data_cache.json: [exists, content]
    fetches,    \* Source Fetcher invocations so far
    pc,         \* per thread: idle, fetching, saving, writing, returned, responded
    force,      \* per thread: get_data's force_refresh
    pending,    \* per thread: the records get_data computed (its `data`)
    wts,        \* per thread: the timestamp save_to_cache took
    wpos,       \* per thread: the next chunk its open file handle writes
    ret,        \* per thread: what get_data returned
    outcome,    \* per thread: the way get_data ended
    resp,       \* per thread: the route taken and the status line it sent
    replaced,   \* while a save is under way: the timestamp of the entry (with
                \* records) the file held when the first writer opened it,
                \* -1 without such an entry or without a writer
    call,       \* the last direct call of one of the module's functions:
                \* [fn, args, result] (see "Direct calls" below)
    heldBefore, \* per thread: the threads that already held their fetched
                \* data, yet to be saved, when this thread's fetch answered
    late        \* the threads that have yet to open the file for their save
                \* and whose fetched data is an older snapshot than, and
                \* differs from, the dataset (with records) the last
                \* completed save left in the file

vars == <<now, file, fetches, pc, force, pending, wts, wpos, ret, outcome, resp,
          replaced, call, heldBefore, late>>

\* no direct call was made
NoCall == [fn |-> "", args |-> <<>>, result |-> None]

\* the ways a get_data call ends
Outcomes == {"served_cache", "fallback_cache", "no_data", "saved", "save_failed"}

\* The process starts with no cache file (a first deploy) or with the file
\* an earlier run of it saved: the snapshot TableA, just written.
Init ==
    /\ now = 0
    /\ file \in {NoFile, FileOf(JsonDump(0, Processed[TableA]))}
    /\ fetches = 0
    /\ pc = [p \in Threads |-> "idle"]
    /\ force = [p \in Threads |-> FALSE]
    /\ pending = [p \in Threads |-> <<>>]
    /\ wts = [p \in Threads |-> 0]
    /\ wpos = [p \in Threads |-> 0]
    /\ ret = [p \in Threads |-> None]
    /\ outcome = [p \in Threads |-> "none"]
    /\ resp = [p \in Threads |-> NoResponse]
    /\ replaced = -1
    /\ call = NoCall
    /\ heldBefore = [p \in Threads |-> {}]
    /\ late = {}

\* ------------------------------------------------------------------------
\* The environment: the clock, and the cache file lost or damaged between
\* requests (a deploy without the file, a crash, an edit by hand)
\* ------------------------------------------------------------------------
Tick ==
    /\ now < ClockStep * MaxTicks
    /\ now' = now + ClockStep
    /\ UNCHANGED <<file, fetches, pc, force, pending, wts, wpos, ret, outcome, resp, replaced, call, heldBefore, late>>

SampleRecord == Processed[TableB][1]

DamagedContents ==
    { <<[tok |-> "garbage"]>>,
      <<[tok |-> "head_nots"], RecChunk(SampleRecord), TailChunk>>,
      <<[tok |-> "head_badts"], RecChunk(SampleRecord), TailChunk>>,
      <<[tok |-> "nodata", ts |-> now]>>,
      <<[tok |-> "baddata", ts |-> now]>> }

NoWriter == \A p \in Threads : pc[p] # "writing"

OtherWriter(p) == \E q \in Threads \ {p} : pc[q] = "writing"

\* the text json.dump writes for some entry: head, records, tail
IsEntryText(content) ==
    /\ Len(content) >= 2
    /\ content[1].tok = "head"
    /\ content[Len(content)].tok = "tail"
    /\ \A i \in 2..(Len(content) - 1) : content[i].tok = "rec"

\* the cache slot holds an entry {timestamp, data}
HasEntry(f) == f.exists /\ IsEntryText(f.content)

EntryTime(f) == f.content[1].ts

EntryData(f) == [i \in 1..(Len(f.content) - 2) |-> JsonLoads(f.content[i + 1].text)]

\* the threads between their fetch's answer and the end of their save
Savers == {p \in Threads : pc[p] \in {"saving", "writing"}}

\* heldBefore once thread p's call has ended
Ended(p) == [q \in Threads |-> IF q = p THEN {} ELSE heldBefore[q] \ {p}]

DeleteFile ==
    /\ NoWriter
    /\ file.exists
    /\ file' = NoFile
    /\ late' = {}
    /\ UNCHANGED <<now, fetches, pc, force, pending, wts, wpos, ret, outcome, resp, replaced, call, heldBefore>>

DamageFile ==
    /\ NoWriter
    /\ \E c \in DamagedContents : file' = FileOf(c)
    /\ file' # file
    /\ late' = {}
    /\ UNCHANGED <<now, fetches, pc, force, pending, wts, wpos, ret, outcome, resp, replaced, call, heldBefore>>

\* ------------------------------------------------------------------------
\* get_data, step by step (src/api_server.py:151-171)
\* ------------------------------------------------------------------------
\* lines 153-156: a request arrives on a route calling get_data(); the
\* cache is loaded and, when truthy, returned
CallServed(p) ==
    /\ pc[p] = "idle"
    /\ Truthy(load_cached_data(file, now))
    /\ pc' = [pc EXCEPT ![p] = "returned"]
    /\ force' = [force EXCEPT ![p] = FALSE]
    /\ ret' = [ret EXCEPT ![p] = load_cached_data(file, now)]
    /\ outcome' = [outcome EXCEPT ![p] = "served_cache"]
    /\ UNCHANGED <<now, file, fetches, pending, wts, wpos, resp, replaced, call, heldBefore, late>>

\* lines 153-159: the cache gave nothing (or force_refresh is set, and the
\* cache is not read): fetch_baseball_savant_data() is invoked
CallFetch(p, forced) ==
    /\ pc[p] = "idle"
    /\ forced \/ ~Truthy(load_cached_data(file, now))
    /\ fetches < MaxFetches
    /\ fetches' = fetches + 1
    /\ pc' = [pc EXCEPT ![p] = "fetching"]
    /\ force' = [force EXCEPT ![p] = forced]
    /\ outcome' = [outcome EXCEPT ![p] = "none"]
    /\ UNCHANGED <<now, file, pending, wts, wpos, ret, resp, replaced, call, heldBefore, late>>

\* line 163: the load the fallback uses is load_cached_data() again
LoadForFallback(f, t) == load_cached_data(f, t)

\* line 164: cached if cached else {"error": "No data available"}
Fallback(f, t) ==
    LET cached == LoadForFallback(f, t)
    IN  IF Truthy(cached) THEN cached ELSE NoDataAvailable

\* line 161: df is None or df.empty
FetchGaveNothing(df) == IF IsNone(df) THEN TRUE ELSE IsEmptyFrame(df)

\* FetchFailed with the bug of a retry: after a failed fetch the fetcher is
\* invoked again within the same call
FetchFailedRetries(p, df) ==
    /\ pc[p] = "fetching"
    /\ FetchGaveNothing(df)
    /\ fetches < MaxFetches
    /\ fetches' = fetches + 1
    /\ UNCHANGED <<now, file, pc, force, pending, wts, wpos, ret, outcome, resp,
                   replaced, call, heldBefore, late>>

\* lines 161-164: the fetch gave None or an empty frame
FetchFailed(p, df) ==
    /\ pc[p] = "fetching"
    /\ FetchGaveNothing(df)
    /\ pc' = [pc EXCEPT ![p] = "returned"]
    /\ ret' = [ret EXCEPT ![p] = Fallback(file, now)]
    /\ outcome' = [outcome EXCEPT ![p] =
                      IF IsDict(Fallback(file, now)) THEN "no_data" ELSE "fallback_cache"]
    /\ UNCHANGED <<now, file, fetches, force, pending, wts, wpos, resp, replaced, call, heldBefore, late>>

\* lines 166-168: the fetch gave a frame with rows
FetchSucceeded(p, df) ==
    /\ pc[p] = "fetching"
    /\ ~FetchGaveNothing(df)
    /\ pending' = [pending EXCEPT ![p] = Processed[df]]
    /\ pc' = [pc EXCEPT ![p] = "saving"]
    /\ heldBefore' = [heldBefore EXCEPT ![p] = Savers]
    /\ UNCHANGED <<now, file, fetches, force, wts, wpos, ret, outcome, resp, replaced, call, late>>

\* ------------------------------------------------------------------------
\* save_to_cache (lines 137-148), called at line 170
\* ------------------------------------------------------------------------
\* lines 140-144: the timestamp is taken, open(CACHE_FILE, 'w') truncates
SaveOpen(p) ==
    /\ pc[p] = "saving"
    /\ wts' = [wts EXCEPT ![p] = now]
    /\ wpos' = [wpos EXCEPT ![p] = 1]
    /\ file' = FileOf(<<>>)
    /\ pc' = [pc EXCEPT ![p] = "writing"]
    /\ replaced' = IF ~NoWriter THEN replaced
                   ELSE IF HasEntry(file) /\ EntryData(file) # <<>> THEN EntryTime(file)
                   ELSE -1
    /\ UNCHANGED <<now, fetches, force, pending, ret, outcome, resp, call, heldBefore, late>>

\* lines 147-148, 171: open() raised; the error is printed, data returned
SaveOpenError(p) ==
    /\ pc[p] = "saving"
    /\ pc' = [pc EXCEPT ![p] = "returned"]
    /\ ret' = [ret EXCEPT ![p] = List(pending[p])]
    /\ outcome' = [outcome EXCEPT ![p] = "save_failed"]
    /\ pending' = [pending EXCEPT ![p] = <<>>]
    /\ heldBefore' = Ended(p)
    /\ late' = late \ {p}
    /\ UNCHANGED <<now, file, fetches, force, wts, wpos, resp, replaced, call>>

\* line 145: the next chunk of json.dump's text reaches the file; after the
\* last one the file is closed and get_data returns data (line 171)
SaveWrite(p) ==
    /\ pc[p] = "writing"
    /\ LET text == JsonDump(wts[p], pending[p])
       IN  /\ file' = FileOf(WriteAt(file.content, wpos[p], text[wpos[p]]))
           /\ IF wpos[p] < Len(text)
              THEN /\ wpos' = [wpos EXCEPT ![p] = wpos[p] + 1]
                   /\ UNCHANGED <<pc, ret, outcome, pending, wts, replaced,
                                  heldBefore, late>>
              ELSE /\ wpos' = [wpos EXCEPT ![p] = 0]
                   /\ wts' = [wts EXCEPT ![p] = 0]
                   /\ pending' = [pending EXCEPT ![p] = <<>>]
                   /\ pc' = [pc EXCEPT ![p] = "returned"]
                   /\ ret' = [ret EXCEPT ![p] = List(pending[p])]
                   /\ outcome' = [outcome EXCEPT ![p] = "saved"]
                   /\ replaced' = IF OtherWriter(p) THEN replaced ELSE -1
                   /\ heldBefore' = Ended(p)
                   /\ late' = IF file' = FileOf(text) /\ pending[p] # <<>>
                              THEN {q \in heldBefore[p] :
                                       pc[q] = "saving" /\ pending[q] # pending[p]}
                              ELSE late \ {p}
    /\ UNCHANGED <<now, fetches, force, resp, call>>

\* SaveWriteError with the bug of an except clause that gives up the
\* request: the caller gets the error dict instead of the data
SaveWriteErrorGivesUp(p) ==
    /\ pc[p] = "writing"
    /\ wpos' = [wpos EXCEPT ![p] = 0]
    /\ pc' = [pc EXCEPT ![p] = "returned"]
    /\ ret' = [ret EXCEPT ![p] = NoDataAvailable]
    /\ outcome' = [outcome EXCEPT ![p] = "save_failed"]
    /\ wts' = [wts EXCEPT ![p] = 0]
    /\ pending' = [pending EXCEPT ![p] = <<>>]
    /\ replaced' = IF OtherWriter(p) THEN replaced ELSE -1
    /\ heldBefore' = Ended(p)
    /\ late' = late \ {p}
    /\ UNCHANGED <<now, file, fetches, force, resp, call>>

\* SaveWriteError with the bug of a save that starts over after a failed
\* write
SaveWriteErrorRetries(p) ==
    /\ pc[p] = "writing"
    /\ wpos' = [wpos EXCEPT ![p] = 0]
    /\ wts' = [wts EXCEPT ![p] = 0]
    /\ pc' = [pc EXCEPT ![p] = "saving"]
    /\ replaced' = IF OtherWriter(p) THEN replaced ELSE -1
    /\ UNCHANGED <<now, file, fetches, force, pending, ret, outcome, resp, call, heldBefore, late>>

\* lines 147-148, 171: json.dump raised part-way (the disk is full, a value
\* does not serialize); the file keeps what was written
SaveWriteError(p) ==
    /\ pc[p] = "writing"
    /\ wpos' = [wpos EXCEPT ![p] = 0]
    /\ pc' = [pc EXCEPT ![p] = "returned"]
    /\ ret' = [ret EXCEPT ![p] = List(pending[p])]
    /\ outcome' = [outcome EXCEPT ![p] = "save_failed"]
    /\ wts' = [wts EXCEPT ![p] = 0]
    /\ pending' = [pending EXCEPT ![p] = <<>>]
    /\ replaced' = IF OtherWriter(p) THEN replaced ELSE -1
    /\ heldBefore' = Ended(p)
    /\ late' = late \ {p}
    /\ UNCHANGED <<now, file, fetches, force, resp, call>>

\* ------------------------------------------------------------------------
\* The route's own code after get_data returned (lines 181-256)
\* ------------------------------------------------------------------------
\* the route computes its response from what get_data returned and sends it
Respond(p, r) ==
    /\ pc[p] = "returned"
    /\ (r \in ForcedRoutes) = force[p]
    /\ resp' = [resp EXCEPT ![p] = Sent(r, RouteResponse(r, ret[p]))]
    /\ pc' = [pc EXCEPT ![p] = "responded"]
    /\ force' = [force EXCEPT ![p] = FALSE]
    /\ ret' = [ret EXCEPT ![p] = None]
    /\ outcome' = [outcome EXCEPT ![p] = "none"]
    /\ UNCHANGED <<now, file, fetches, pending, wts, wpos, replaced, call, heldBefore, late>>

\* the handler is over; the thread waits for its next request
Finish(p) ==
    /\ pc[p] = "responded"
    /\ pc' = [pc EXCEPT ![p] = "idle"]
    /\ resp' = [resp EXCEPT ![p] = NoResponse]
    /\ UNCHANGED <<now, file, fetches, force, pending, wts, wpos, ret, outcome, replaced, call, heldBefore, late>>

Next ==
    \/ Tick
    \/ DeleteFile
    \/ DamageFile
    \/ \E p \in Threads : CallServed(p)
    \/ \E p \in Threads : \E forced \in BOOLEAN : CallFetch(p, forced)
    \/ \E p \in Threads : \E df \in FetchAnswers : FetchFailed(p, df)
    \/ \E p \in Threads : \E df \in FetchAnswers : FetchSucceeded(p, df)
    \/ \E p \in Threads : SaveOpen(p)
    \/ \E p \in Threads : SaveOpenError(p)
    \/ \E p \in Threads : SaveWrite(p)
    \/ \E p \in Threads : SaveWriteError(p)
    \/ \E p \in Threads : \E r \in Routes : Respond(p, r)
    \/ \E p \in Threads : Finish(p)

Spec == Init /\ [][Next]_vars

\* The steps of thread p's get_data once past its first cache read: the
\* fetcher's answer (requests.get has timeout=30 and every exception gives
\* None, lines 68-83), then the statements of lines 161-171 and of
\* save_to_cache, none of which waits for a lock or for another thread.
InFlight(p) ==
    \/ \E df \in FetchAnswers : FetchFailed(p, df)
    \/ \E df \in FetchAnswers : FetchSucceeded(p, df)
    \/ SaveOpen(p)
    \/ SaveOpenError(p)
    \/ SaveWrite(p)
    \/ SaveWriteError(p)

\* the caller of get_data (any of the routes) has taken the result; the
\* thread is free for its next request
Taken(p) ==
    /\ pc[p] = "returned"
    /\ pc' = [pc EXCEPT ![p] = "idle"]
    /\ force' = [force EXCEPT ![p] = FALSE]
    /\ ret' = [ret EXCEPT ![p] = None]
    /\ outcome' = [outcome EXCEPT ![p] = "none"]
    /\ UNCHANGED <<now, file, fetches, pending, wts, wpos, resp, replaced, call, heldBefore, late>>

\* get_data under every caller alike: the calls of the threads, one after
\* another in each thread, within one clock reading: a call meets no file,
\* a fresh entry, or what the threads' own overlapping saves leave of it
\* (an empty, partial or mixed file, which loads as a stale one does)
LiveNext ==
    \/ DeleteFile
    \/ \E p \in Threads : CallServed(p)
    \/ \E p \in Threads : \E forced \in BOOLEAN : CallFetch(p, forced)
    \/ \E p \in Threads : InFlight(p)
    \/ \E p \in Threads : Taken(p)

\* with threads that keep running and a fetcher that answers
LiveSpec == Init /\ [][LiveNext]_vars /\ \A p \in Threads : WF_vars(InFlight(p))

\* ------------------------------------------------------------------------
\* Direct calls: the module's functions applied to arguments of the caller's
\* choosing, as a test of the module does, with no request in progress;
\* a run makes one call
\* ------------------------------------------------------------------------
\* the variables of the server, which a direct call leaves alone
server == <<now, file, fetches, pc, force, pending, wts, wpos, ret, outcome, resp,
            replaced, heldBefore, late>>

Called(fn, args, result) == [fn |-> fn, args |-> args, result |-> result]

\* column names as upstream has written them, under several spellings
ColumnPool ==
    <<"bat_speed_mph", "avg_bat_speed", "Bat_Speed", "swing_length_ft",
      "Swing_Length", "player_name">>

ColumnNames == {ColumnPool[i] : i \in 1..Len(ColumnPool)}

\* the ordered lists of up to MaxColumns different names
ColumnLists ==
    {cols \in UNION {[1..n -> ColumnNames] : n \in 0..MaxColumns} :
        \A i, j \in 1..Len(cols) : i # j => cols[i] # cols[j]}

\* the cell of the test row under each column: a different number for each
\* measurement column, so that the result tells which column was read
TestCell ==
    [c \in ColumnNames |->
        IF c = "player_name" THEN Str("Judge")
        ELSE Num(600 + 10 * (CHOOSE i \in 1..Len(ColumnPool) : ColumnPool[i] = c))]

\* pd.DataFrame of one row under the given columns
FrameOf(columns) ==
    [columns |-> columns,
     rows |-> << [i \in 1..Len(columns) |-> TestCell[columns[i]]] >>]

call_process_data(df) ==
    /\ call = NoCall
    /\ call' = Called("process_data", <<df>>, process_data(df))
    /\ UNCHANGED server

\* measurements in tenths as pd.to_numeric may give them: None / NaN, zero,
\* a negative number (a sign upstream got wrong), usual values
BatSpeeds == {Null} \cup {Num(n) : n \in {0, 600, 720, 800}}

SwingLengths == {Null} \cup {Num(n) : n \in {-70, 0, 1, 65, 73, 80}}

call_calculate_power_plus(bat_speed, swing_length) ==
    /\ call = NoCall
    /\ call' = Called("calculate_power_plus", <<bat_speed, swing_length>>,
                      calculate_power_plus(bat_speed, swing_length))
    /\ UNCHANGED server

\* Power+ values around every threshold, and None
Powers == {Null} \cup {Num(n) : n \in MinPower..MaxPower}

call_get_grade(power_plus) ==
    /\ call = NoCall
    /\ call' = Called("get_grade", <<power_plus>>, get_grade(power_plus))
    /\ UNCHANGED server

\* records as a dataset holds them: names that share a part under different
\* spellings, and a record of a table that had no player_name column
RecordPool ==
    { [player_name |-> Str("Aaron Judge"), team |-> Str("NYY")],
      [player_name |-> Str("JUDGE, Al"), team |-> Str("SD")],
      [player_name |-> Str("Juan Soto"), team |-> Str("NYM")],
      [team |-> Str("LAD")] }

\* the datasets of up to MaxRecords of them, in any order, repeats included
Datasets == UNION {[1..n -> RecordPool] : n \in 0..MaxRecords}

\* the <player_name> of /api/player/<player_name>
Queries == {"judge", "JUD", "a", "ohtani"}

\* the code of get_player after data = get_data()
call_get_player(data, player_name) ==
    /\ call = NoCall
    /\ call' = Called("get_player", <<data, player_name>>,
                      get_player(List(data), player_name))
    /\ UNCHANGED server

CallNext ==
    \/ \E columns \in ColumnLists : call_process_data(FrameOf(columns))
    \/ \E b \in BatSpeeds : \E l \in SwingLengths : call_calculate_power_plus(b, l)
    \/ \E power_plus \in Powers : call_get_grade(power_plus)
    \/ \E data \in Datasets : \E q \in Queries : call_get_player(data, q)

\* the module freshly loaded, no cache file and no request
CallInit == Init /\ file = NoFile

CallSpec == CallInit /\ [][CallNext]_vars

\* ------------------------------------------------------------------------
\* Steps of a thread, read off two successive states
\* ------------------------------------------------------------------------
\* thread p's get_data() (not forced) does its first load_cached_data()
FirstLoadStep(p) == pc[p] = "idle" /\ pc'[p] # "idle" /\ ~force'[p]

\* thread p's fetch comes back with nothing and get_data falls back
FallbackStep(p) == pc[p] = "fetching" /\ pc'[p] = "returned"

\* the slot holds an entry younger than the TTL at clock reading t
FreshEntry(f, t) == HasEntry(f) /\ t - EntryTime(f) < CACHE_DURATION

\* the slot holds an entry as old as the TTL or older
StaleEntry(f, t) == HasEntry(f) /\ t - EntryTime(f) >= CACHE_DURATION

\* ------------------------------------------------------------------------
\* Claims
\* ------------------------------------------------------------------------
\* C1: when the fetch of a non-forced get_data call fails, a stale entry in
\* the cache slot is returned as the result, and with no entry in the slot
\* the result is NoDataAvailable.
C1_FallbackToLastKnownGood ==
    [][\A p \in Threads :
          (FallbackStep(p) /\ ~force[p]) =>
              /\ StaleEntry(file, now) => ret'[p] = List(EntryData(file))
              /\ ~HasEntry(file) => ret'[p] = NoDataAvailable]_vars

\* C2: at most one Source Fetcher invocation is in flight at any time.
C2_SingleFlight == Cardinality({p \in Threads : pc[p] = "fetching"}) <= 1

\* C3: a load_cached_data() that runs while a save_to_cache() replaces a
\* fresh entry reads a whole entry, the previous or the new one, and so
\* gives a dataset: never a half-written slot.
C3_AtomicReplacement ==
    [][\A p \in Threads :
          /\ (FirstLoadStep(p) \/ FallbackStep(p))
          /\ ~NoWriter
          /\ replaced >= 0
          /\ now - replaced < CACHE_DURATION
          => /\ IsEntryText(file.content)
             /\ IsList(load_cached_data(file, now))]_vars

\* C4: save_to_cache is called only after a successful fetch+process cycle:
\* a thread that saves holds a non-empty processed result (a resolution
\* failure or an empty result goes to the fallback and leaves the slot).
C4_FailedCycleKeepsCache ==
    \A p \in Threads : pc[p] \in {"saving", "writing"} => pending[p] # <<>>

\* C5: a non-forced get_data call that finds a fresh entry in the slot
\* returns that entry's dataset, invokes no fetch and writes nothing.
C5_ServeFromCache ==
    [][\A p \in Threads :
          (FirstLoadStep(p) /\ FreshEntry(file, now)) =>
              /\ pc'[p] = "returned"
              /\ ret'[p] = List(EntryData(file))
              /\ fetches' = fetches
              /\ file' = file]_vars

\* C6: when the fetch of a forced get_data call fails, the cached dataset
\* is returned if the slot holds any entry, fresh or stale, and
\* NoDataAvailable only if it holds none.
C6_ForcedRefreshFallback ==
    [][\A p \in Threads :
          (FallbackStep(p) /\ force[p]) =>
              /\ HasEntry(file) => ret'[p] = List(EntryData(file))
              /\ ~HasEntry(file) => ret'[p] = NoDataAvailable]_vars

\* C7: load_cached_data gives the entry's dataset iff now - timestamp < TTL,
\* and the load the fallback uses still gives the dataset of an entry aged
\* TTL or more.
C7_FreshnessBoundary ==
    HasEntry(file) =>
        /\ FreshEntry(file, now) => load_cached_data(file, now) = List(EntryData(file))
        /\ StaleEntry(file, now) =>
              /\ load_cached_data(file, now) = None
              /\ LoadForFallback(file, now) = List(EntryData(file))

\* C8: on every route, a get_data result of NoDataAvailable is answered by
\* a JSON error payload with an error status.
C8_NoDataIsStructuredError ==
    [][\A p \in Threads :
          (pc[p] = "returned" /\ pc'[p] = "responded" /\ ret[p] = NoDataAvailable) =>
              (resp'[p].kind = "json" /\ resp'[p].status >= 400)]_vars

\* C9: with the cache file missing, unparsable or lacking a valid timestamp
\* or data, load_cached_data gives None; a non-forced get_data goes on to
\* the fetcher, as with no cache, and the fallback finds no data.
ColdSlot(f) == ~f.exists \/ ~IsEntryText(f.content)

C9_CorruptIsColdCache ==
    [][\A p \in Threads :
          /\ (FirstLoadStep(p) /\ ColdSlot(file)) =>
                /\ pc'[p] = "fetching"
                /\ fetches' = fetches + 1
                /\ file' = file
          /\ (FallbackStep(p) /\ ColdSlot(file)) =>
                /\ ret'[p] = NoDataAvailable
                /\ file' = file]_vars

\* C10: when save_to_cache fails, get_data still returns the dataset it
\* computed, not an error.
C10_SaveFailureStillReturns ==
    [][\A p \in Threads :
          (pc[p] \in {"saving", "writing"} /\ outcome'[p] = "save_failed") =>
              /\ pc'[p] = "returned"
              /\ ret'[p] = List(pending[p])]_vars

\* a save failed and the thread holds the records it computed
C10_Witness ==
    \E p \in Threads :
        /\ pc[p] = "returned"
        /\ outcome[p] = "save_failed"
        /\ IsList(ret[p])
        /\ ret[p].list # <<>>

\* C11: a save_to_cache(d) that no other save disturbs, followed by
\* load_cached_data within the TTL, gives back d: the same records in the
\* same order.
C11_CacheRoundTrip ==
    [][\A p \in Threads :
          /\ pc[p] = "writing"
          /\ outcome'[p] = "saved"
          /\ file' = FileOf(JsonDump(wts[p], pending[p]))
          /\ now - wts[p] < CACHE_DURATION
          => load_cached_data(file', now') = List(pending[p])]_vars

\* a save of two records has completed and the file reads back as them
C11_Witness ==
    \E p \in Threads :
        /\ pc[p] = "returned"
        /\ outcome[p] = "saved"
        /\ IsList(ret[p])
        /\ Len(ret[p].list) = 2
        /\ file = FileOf(JsonDump(now, ret[p].list))
        /\ load_cached_data(file, now) = ret[p]

\* C12: process_data reads the bat speed from the first column, in source
\* order, whose lowercased name contains "bat_speed" and, independently,
\* the swing length from the first whose lowercased name contains
\* "swing_length"; with no match for either, no column is selected and the
\* result is the empty frame.
FirstMatch(columns, sub) ==
    LET hits == {i \in 1..Len(columns) : Contains(Lower(columns[i]), sub)}
    IN  IF hits = {} THEN 0 ELSE CHOOSE i \in hits : \A j \in hits : i <= j

C12_FirstMatchResolution ==
    call.fn = "process_data" =>
        LET df == call.args[1]
            out == call.result
            speed == FirstMatch(df.columns, "bat_speed")
            length == FirstMatch(df.columns, "swing_length")
        IN  IF speed = 0 \/ length = 0 THEN out = EmptyFrame
            ELSE /\ Len(out.rows) = Len(df.rows)
                 /\ \A r \in 1..Len(df.rows) :
                       /\ out.rows[r][ColumnIndex(out.columns, "bat_speed")]
                             = df.rows[r][speed]
                       /\ out.rows[r][ColumnIndex(out.columns, "swing_length")]
                             = df.rows[r][length]

\* the example of two bat-speed columns: the first one, bat_speed_mph, is read
C12_Witness ==
    /\ call.fn = "process_data"
    /\ call.args[1].columns = <<"bat_speed_mph", "avg_bat_speed", "swing_length_ft">>
    /\ call.result.rows[1][ColumnIndex(call.result.columns, "bat_speed")]
          = TestCell["bat_speed_mph"]
    /\ call.result.rows[1][ColumnIndex(call.result.columns, "swing_length")]
          = TestCell["swing_length_ft"]

\* C13: calculate_power_plus gives a value iff swing_length > 0 and both
\* inputs are non-null; with swing_length == 0 or a null input it gives
\* None (never a zero standing for it) and the grade of that is "N/A".
C13_MetricDefinedness ==
    call.fn = "calculate_power_plus" =>
        LET bat_speed == call.args[1]
            swing_length == call.args[2]
            power_plus == call.result
            defined == /\ ~IsNull(bat_speed)
                       /\ ~IsNull(swing_length)
                       /\ swing_length.num > 0
            undefined == IF IsNull(bat_speed) \/ IsNull(swing_length) THEN TRUE
                         ELSE swing_length.num = 0
        IN  /\ IsNum(power_plus) <=> defined
            /\ undefined => (power_plus = Null /\ get_grade(power_plus) = "N/A")

\* C14: for a present power_plus (tenths) the grade is Elite iff >= 110.0,
\* Above Average iff in [105.0, 110.0), Average iff in [95.0, 105.0),
\* Below Average iff in [90.0, 95.0) and Poor iff < 90.0.
C14_GradeBands ==
    (call.fn = "get_grade" /\ IsNum(call.args[1])) =>
        LET x == call.args[1].num
            grade == call.result
        IN  /\ grade = "Elite" <=> x >= 1100
            /\ grade = "Above Average" <=> (1050 <= x /\ x < 1100)
            /\ grade = "Average" <=> (950 <= x /\ x < 1050)
            /\ grade = "Below Average" <=> (900 <= x /\ x < 950)
            /\ grade = "Poor" <=> x < 900

\* a value on a threshold: 110.0 is graded Elite
C14_Witness == call = Called("get_grade", <<Num(1100)>>, "Elite")

\* C15: over any dataset get_data returns, records with a null or absent
\* power_plus or swings included, /api/players/elite answers with exactly
\* the records whose power_plus is present and >= 110 and
\* /api/players/qualified with exactly those whose swings is >= 300, in
\* source order, and neither fails.
C15_EliteAndQualifiedFilters ==
    [][\A p \in Threads :
          /\ pc[p] = "returned"
          /\ pc'[p] = "responded"
          /\ IsList(ret[p])
          /\ resp'[p].route \in {"elite", "qualified"}
          => LET elite == resp'[p].route = "elite"
                 key == IF elite THEN "power_plus" ELSE "swings"
                 least == IF elite THEN 1100 ELSE 300
                 Keep(r) == /\ key \in DOMAIN r
                            /\ IsNum(r[key])
                            /\ r[key].num >= least
                 answer == IF elite THEN get_elite_players(ret[p])
                           ELSE get_qualified_players(ret[p])
             IN  /\ resp'[p].kind = "json"
                 /\ resp'[p].status = 200
                 /\ answer = Json(200, List(SelectSeq(ret[p].list, Keep)))]_vars

\* C16: get_player answers with the first record, in source order, whose
\* player_name contains the given text without regard to case, and with
\* 404 "Player not found" when no record does.
C16_PlayerLookup ==
    call.fn = "get_player" =>
        LET data == call.args[1]
            wanted == Lower(call.args[2])
            Name(r) == IF "player_name" \in DOMAIN r THEN r.player_name.str ELSE ""
            hits == {i \in 1..Len(data) : Contains(Lower(Name(data[i])), wanted)}
        IN  IF hits = {} THEN call.result = Json(404, [error |-> "Player not found"])
            ELSE \E i \in hits :
                    /\ \A j \in hits : i <= j
                    /\ call.result = Json(200, data[i])

\* two records match "JUD" under different spellings, after one that does
\* not: the first of the two is the answer
C16_Witness ==
    /\ call.fn = "get_player"
    /\ call.args[2] = "JUD"
    /\ call.args[1] =
          << [player_name |-> Str("Juan Soto"), team |-> Str("NYM")],
             [player_name |-> Str("JUDGE, Al"), team |-> Str("SD")],
             [player_name |-> Str("Aaron Judge"), team |-> Str("NYY")] >>
    /\ call.result = Json(200, [player_name |-> Str("JUDGE, Al"), team |-> Str("SD")])

\* C17: when get_data returns an empty dataset or NoDataAvailable,
\* /api/stats/summary answers 500 {"error": "No data available"}, never
\* an aggregate.
C17_SummaryOverNoData ==
    [][\A p \in Threads :
          /\ pc[p] = "returned"
          /\ pc'[p] = "responded"
          /\ resp'[p].route = "summary"
          /\ (ret[p] = NoDataAvailable \/ ret[p] = List(<<>>))
          => /\ resp'[p].kind = "json"
             /\ resp'[p].status = 500
             /\ get_summary(ret[p]) = Json(500, [error |-> "No data available"])]_vars

\* the summary route has answered with its no-data error
C17_Witness ==
    \E p \in Threads :
        /\ pc[p] = "responded"
        /\ resp[p] = [route |-> "summary", status |-> 500, kind |-> "json"]

\* C18: a get_data call invokes the Source Fetcher at most once: a fetch
\* begins only as a call begins; when it fails, the call's one further
\* step is the fallback read of the cache, which ends the call without
\* another fetch and without a write.
C18_NoAutomaticRetry ==
    [][/\ fetches' \in {fetches, fetches + 1}
       /\ fetches' = fetches + 1 =>
             \E p \in Threads : pc[p] = "idle" /\ pc'[p] = "fetching"
       /\ \A p \in Threads :
             /\ (pc'[p] = "fetching" /\ pc[p] # "fetching") =>
                   (pc[p] = "idle" /\ fetches' = fetches + 1)
             /\ (pc[p] = "fetching" /\ pc'[p] # "fetching") =>
                   pc'[p] \in {"returned", "saving"}
             /\ FallbackStep(p) =>
                   /\ ret'[p] = Fallback(file, now)
                   /\ fetches' = fetches
                   /\ file' = file]_vars

\* one call's fetch failed and the call has ended on the fallback, with
\* one fetcher invocation made in all
C18_Witness ==
    \E p \in Threads :
        /\ pc[p] = "returned"
        /\ outcome[p] \in {"no_data", "fallback_cache"}
        /\ fetches = 1

\* C19: every get_data call ends: a call past its first cache read returns,
\* whatever the other threads do, and a call that has returned has one of
\* the outcomes: served from the fresh cache, the newly fetched dataset
\* (saved, or its save failed), the cache's dataset from the fallback, or
\* NoDataAvailable.
C19_EveryCallTerminates ==
    /\ [](\A p \in Threads : pc[p] = "returned" => outcome[p] \in Outcomes)
    /\ \A p \in Threads :
          (pc[p] \in {"fetching", "saving", "writing"})
              ~> (pc[p] = "returned" /\ outcome[p] \in Outcomes)

\* the calls of all threads, each of which went to the fetcher, have
\* returned side by side
C19_Witness ==
    \A p \in Threads :
        /\ pc[p] = "returned"
        /\ outcome[p] \in Outcomes \ {"served_cache"}

\* C20: no older snapshot overwrites a newer one: when a save completes and
\* leaves its dataset (with records) in the slot, that dataset was not
\* fetched before the dataset the previous completed save had left there.
C20_NoOlderOverNewer ==
    [][\A p \in Threads :
          /\ pc[p] = "writing"
          /\ outcome'[p] = "saved"
          /\ pending[p] # <<>>
          /\ file' = FileOf(JsonDump(wts[p], pending[p]))
          => p \notin late]_vars

====
